---------------------------- MODULE Spec2Model ----------------------------
(***************************************************************************)
(* OriginDataProcessor.read_data_file and _detect_delimiter of             *)
(* OriginBookImportCSV3.py.                                                *)
(*                                                                         *)
(* A text is a sequence of tokens.  A token is one character (a delimiter, *)
(* a blank, a digit, a letter) or one marker word of the file format whose *)
(* characters contain no delimiter and no blank ("DataName", ...).  A file *)
(* is the list of its lines (readlines), each line a text.                 *)
(***************************************************************************)
EXTENDS Integers, Sequences, FiniteSets, TLC

(***************************************************************************)
(* Python string primitives on texts                                       *)
(***************************************************************************)

\* str.strip() removes leading and trailing whitespace; tab is whitespace.
Whitespace == {" ", "\t"}

RECURSIVE LStrip(_)
LStrip(s) ==
    IF s = <<>> THEN <<>>
    ELSE IF Head(s) \in Whitespace THEN LStrip(Tail(s)) ELSE s

RECURSIVE RStrip(_)
RStrip(s) ==
    IF s = <<>> THEN <<>>
    ELSE IF s[Len(s)] \in Whitespace THEN RStrip(SubSeq(s, 1, Len(s) - 1)) ELSE s

Strip(s) == RStrip(LStrip(s))

\* str.count(c) for a one-character c
RECURSIVE Count(_, _)
Count(s, c) ==
    IF s = <<>> THEN 0
    ELSE (IF Head(s) = c THEN 1 ELSE 0) + Count(Tail(s), c)

\* c in s, for a one-character or marker-word c
Contains(s, c) == \E k \in 1..Len(s) : s[k] = c

\* str.startswith(marker) for a marker word
StartsWith(s, marker) == s # <<>> /\ Head(s) = marker

\* str.split(d): always at least one field
RECURSIVE Split(_, _)
Split(s, d) ==
    IF s = <<>> THEN << <<>> >>
    ELSE LET rest == Split(Tail(s), d)
         IN  IF Head(s) = d
             THEN << <<>> >> \o rest
             ELSE << <<Head(s)>> \o Head(rest) >> \o Tail(rest)

\* str.replace(' ', '')
RECURSIVE RemoveSpaces(_)
RemoveSpaces(s) ==
    IF s = <<>> THEN <<>>
    ELSE (IF Head(s) = " " THEN <<>> ELSE <<Head(s)>>) \o RemoveSpaces(Tail(s))

\* parts[n:]
Drop(s, n) == SubSeq(s, n + 1, Len(s))

\* [h.strip() for h in fields if h.strip()]
RECURSIVE StripNonEmpty(_)
StripNonEmpty(fields) ==
    IF fields = <<>> THEN <<>>
    ELSE LET h == Strip(Head(fields))
         IN  (IF h # <<>> THEN <<h>> ELSE <<>>) \o StripNonEmpty(Tail(fields))

\* list.index(x): 0-based position of the first occurrence
IndexOf(s, x) == (CHOOSE k \in 1..Len(s) : s[k] = x /\ \A m \in 1..(k - 1) : s[m] # x) - 1

InList(s, x) == \E k \in 1..Len(s) : s[k] = x

Min(a, b) == IF a < b THEN a ELSE b

(***************************************************************************)
(* _detect_delimiter                                                       *)
(***************************************************************************)

possible_delimiters == <<",", "\t", ";", "|">>

\* Mutant: a tie goes to the last candidate of the highest count.
MaxByCountLast(present, line) ==
    present[CHOOSE k \in 1..Len(present) :
                /\ \A m \in 1..Len(present) : Count(line, present[m]) <= Count(line, present[k])
                /\ \A m \in (k + 1)..Len(present) : Count(line, present[m]) < Count(line, present[k])]

\* max(delimiter_counts.items(), key=count)[0] over the candidates that occur,
\* kept in candidate order: the first one whose count no other exceeds.
MaxByCount(present, line) ==
    present[CHOOSE k \in 1..Len(present) :
                /\ \A m \in 1..Len(present) : Count(line, present[m]) <= Count(line, present[k])
                /\ \A m \in 1..(k - 1) : Count(line, present[m]) < Count(line, present[k])]

_detect_delimiter(line) ==
    IF line = <<>> \/ Strip(line) = <<>> THEN ","
    ELSE LET delimiter_counts == SelectSeq(possible_delimiters, LAMBDA d : Count(line, d) > 0)
         IN  IF delimiter_counts # <<>> THEN MaxByCount(delimiter_counts, line) ELSE ","

(***************************************************************************)
(* read_data_file, phase 1: the AnalysisSetup...Datum.Name line and the    *)
(* unit line that follows it                                               *)
(***************************************************************************)

\* lines[k] for a 0-based k, as enumerate(lines) numbers them
LineAt(file, k) == file[k + 1]

IsDatumNameLine(line) == StartsWith(line, "AnalysisSetup") /\ Contains(line, "Datum.Name")

IsDatumUnitLine(line) == StartsWith(line, "AnalysisSetup") /\ Contains(line, "Datum.Unit")

\* the i at which the first loop breaks, -1 when it runs to the end
DatumNameIndex(file) ==
    IF \E k \in 0..(Len(file) - 1) : IsDatumNameLine(Strip(LineAt(file, k)))
    THEN CHOOSE k \in 0..(Len(file) - 1) :
            /\ IsDatumNameLine(Strip(LineAt(file, k)))
            /\ \A m \in 0..(k - 1) : ~IsDatumNameLine(Strip(LineAt(file, m)))
    ELSE -1

\* Mutant: the window reaches one line further.
UnitSearchEndInclusive(i, n) == Min(i + 11, n)

\* the exclusive end of range(i + 1, min(i + 10, len(lines)))
UnitSearchEnd(i, n) == Min(i + 10, n)

\* the j at which the inner loop breaks, -1 when it finds no unit line
DatumUnitIndex(file, i) ==
    LET last == UnitSearchEnd(i, Len(file)) - 1
    IN  IF \E k \in (i + 1)..last : IsDatumUnitLine(Strip(LineAt(file, k)))
        THEN CHOOSE k \in (i + 1)..last :
                /\ IsDatumUnitLine(Strip(LineAt(file, k)))
                /\ \A m \in (i + 1)..(k - 1) : ~IsDatumUnitLine(Strip(LineAt(file, m)))
        ELSE -1

EmptyMapping == [c \in {} |-> <<>>]

\* for col, unit in zip(names, units): unit_mapping[col] = unit
ZipMapping(names, units) ==
    LET n == Min(Len(names), Len(units))
    IN  [c \in {names[k] : k \in 1..n} |->
            units[CHOOSE k \in 1..n : names[k] = c /\ \A m \in (k + 1)..n : names[m] # c]]

\* the fields of a declaration line after its two marker fields
DeclaredFields(parts) == StripNonEmpty(Drop(parts, 2))

\* What the first loop leaves behind: the name line's index and delimiter, the
\* names, the unit line's index and the name -> unit mapping.
UnitDiscovery(file) ==
    LET i == DatumNameIndex(file)
        none == [name_line |-> i, delimiter |-> ",", datum_name_headers |-> <<>>,
                 unit_line |-> -1, unit_mapping |-> EmptyMapping]
    IN  IF i = -1 THEN none
        ELSE LET line  == Strip(LineAt(file, i))
                 delim == _detect_delimiter(line)
                 parts == Split(line, delim)
             IN  IF Len(parts) > 2
                 THEN LET names == DeclaredFields(parts)
                          j == DatumUnitIndex(file, i)
                          unit_parts == IF j = -1 THEN <<>>
                                        ELSE Split(Strip(LineAt(file, j)), delim)
                      IN  [name_line |-> i, delimiter |-> delim,
                           datum_name_headers |-> names, unit_line |-> j,
                           unit_mapping |->
                               IF j # -1 /\ Len(unit_parts) > 2
                               THEN ZipMapping(names, DeclaredFields(unit_parts))
                               ELSE EmptyMapping]
                 ELSE [none EXCEPT !.delimiter = delim]

(***************************************************************************)
(* phase 2: the DataName line                                              *)
(***************************************************************************)

\* Mutant: data_start_line defaults to 0, not -1.
DataNameIndexDefaultZero(file) ==
    IF \E k \in 0..(Len(file) - 1) : StartsWith(Strip(LineAt(file, k)), "DataName")
    THEN CHOOSE k \in 0..(Len(file) - 1) :
            /\ StartsWith(Strip(LineAt(file, k)), "DataName")
            /\ \A m \in 0..(k - 1) : ~StartsWith(Strip(LineAt(file, m)), "DataName")
    ELSE IF file = <<>> THEN -1 ELSE 0

DataNameIndex(file) ==
    IF \E k \in 0..(Len(file) - 1) : StartsWith(Strip(LineAt(file, k)), "DataName")
    THEN CHOOSE k \in 0..(Len(file) - 1) :
            /\ StartsWith(Strip(LineAt(file, k)), "DataName")
            /\ \A m \in 0..(k - 1) : ~StartsWith(Strip(LineAt(file, m)), "DataName")
    ELSE -1

\* [h.strip() for h in parts[1:] if h.strip()]
DataHeaders(line, delim) == StripNonEmpty(Drop(Split(line, delim), 1))

(***************************************************************************)
(* phase 3: units of the DataName columns                                  *)
(***************************************************************************)

\* Mutant: every discovered unit is kept, whatever the DataName columns.
ApplyUnitsKeepAll(hdrs, mapping) == mapping

ApplyUnits(hdrs, mapping) ==
    [c \in {hdrs[k] : k \in 1..Len(hdrs)} \cap DOMAIN mapping |-> mapping[c]]

(***************************************************************************)
(* phase 4: the columns to extract.  need is <<>> for None, else <<list>>. *)
(***************************************************************************)

None == <<>>
Some(x) == <<x>>

Truthy(need) == need # None /\ need[1] # <<>>

FullSelection(hdrs) ==
    [headers |-> hdrs, col_indices |-> [k \in 1..Len(hdrs) |-> k - 1]]

\* Mutant: one missing column is enough to fall back to every column.
SelectColumnsAllOrNothing(need, hdrs) ==
    IF Truthy(need) /\ \A k \in 1..Len(need[1]) : InList(hdrs, need[1][k])
    THEN [headers |-> need[1],
          col_indices |-> [k \in 1..Len(need[1]) |-> IndexOf(hdrs, need[1][k])]]
    ELSE FullSelection(hdrs)

SelectColumns(need, hdrs) ==
    IF Truthy(need)
    THEN LET valid_columns == SelectSeq(need[1], LAMBDA c : InList(hdrs, c))
         IN  IF valid_columns # <<>>
             THEN [headers |-> valid_columns,
                   col_indices |-> [k \in 1..Len(valid_columns) |->
                                        IndexOf(hdrs, valid_columns[k])]]
             ELSE FullSelection(hdrs)
    ELSE FullSelection(hdrs)

(***************************************************************************)
(* phase 5: one line after the DataName line                               *)
(***************************************************************************)

NonDataPrefixes == {"SetupTitle", "PrimitiveTest", "TestParameter",
                    "AnalysisSetup", "Dimension1", "Dimension2", "#"}

CleanValue(val) ==
    LET cleaned_val == Strip(val)
    IN  IF Contains(cleaned_val, " ") /\ (Contains(cleaned_val, "E") \/ Contains(cleaned_val, "e"))
        THEN RemoveSpaces(cleaned_val)
        ELSE cleaned_val

\* Mutant: a long row is cut to the declared column count.
PadOrTruncateValues(vals, n) ==
    IF Len(vals) < n THEN vals \o [k \in 1..(n - Len(vals)) |-> <<>>] ELSE SubSeq(vals, 1, n)

\* cleaned_values.extend([''] * (n - len(cleaned_values))) when the row is short
PadValues(vals, n) ==
    IF Len(vals) < n THEN vals \o [k \in 1..(n - Len(vals)) |-> <<>>] ELSE vals

CleanedValues(parts, n) ==
    PadValues([k \in 1..(Len(parts) - 1) |-> CleanValue(parts[k + 1])], n)

\* Mutant: the values are taken from left to right, whatever the indices.
SelectedValuesLeftToRight(vals, indices) ==
    [k \in 1..Len(indices) |-> IF k <= Len(vals) THEN vals[k] ELSE <<>>]

SelectedValues(vals, indices) ==
    [k \in 1..Len(indices) |->
        IF indices[k] < Len(vals) THEN vals[indices[k] + 1] ELSE <<>>]

\* Mutant: a row of empty values counts as data.
HasDataAlways(selected) == TRUE

HasData(selected) == \E k \in 1..Len(selected) : Strip(selected[k]) # <<>>

\* How the loop body leaves through line: "blank", "prefix", "not_datavalue",
\* "malformed", "no_data" (all skipped) or "row" (appended).
ScanVerdict(raw, delim, hdrs, indices) ==
    LET line == Strip(raw)
    IN  IF line = <<>> THEN "blank"
        ELSE IF \E p \in NonDataPrefixes : StartsWith(line, p) THEN "prefix"
        ELSE IF ~StartsWith(line, "DataValue") THEN "not_datavalue"
        ELSE IF Len(Split(line, delim)) < 2 THEN "malformed"
        ELSE IF HasData(SelectedValues(CleanedValues(Split(line, delim), Len(hdrs)), indices))
             THEN "row" ELSE "no_data"

(***************************************************************************)
(* phase 6: the DataFrame and pd.to_numeric(errors='coerce')               *)
(***************************************************************************)

Digits == {"1", "2"}

AllDigits(s) == s # <<>> /\ \A k \in 1..Len(s) : s[k] \in Digits

\* the decimal and scientific forms the token alphabet can spell
ParsesAsNumber(s) ==
    \/ AllDigits(s)
    \/ \E k \in 2..(Len(s) - 1) :
          /\ s[k] \in {"E", "e"}
          /\ AllDigits(SubSeq(s, 1, k - 1))
          /\ AllDigits(SubSeq(s, k + 1, Len(s)))

RECURSIVE Decimal(_)
Decimal(s) ==
    IF s = <<>> THEN 0
    ELSE 10 * Decimal(SubSeq(s, 1, Len(s) - 1)) + (IF s[Len(s)] = "1" THEN 1 ELSE 2)

\* <<mantissa, exponent>>; no digit is 0, so the pair names one number
NumberValue(s) ==
    IF AllDigits(s) THEN <<Decimal(s), 0>>
    ELSE LET k == CHOOSE k \in 2..(Len(s) - 1) : s[k] \in {"E", "e"}
         IN  <<Decimal(SubSeq(s, 1, k - 1)), Decimal(SubSeq(s, k + 1, Len(s)))>>

StrCell(s) == [kind |-> "str", num |-> <<>>, text |-> s]
NumCell(s) == [kind |-> "num", num |-> NumberValue(s), text |-> <<>>]
NaNCell    == [kind |-> "nan", num |-> <<>>, text |-> <<>>]

\* errors='coerce': what does not parse, the empty string included, becomes NaN
ToNumeric(s) == IF ParsesAsNumber(s) THEN NumCell(s) ELSE NaNCell

\* df[col] is a Series when the label col is unique, a DataFrame when it is
\* not; pd.to_numeric raises TypeError on a DataFrame and the bare except
\* leaves the columns as they were.
LabelIsUnique(hdrs, col) == Cardinality({k \in 1..Len(hdrs) : hdrs[k] = col}) = 1

ConvertColumn(hdrs, k) == LabelIsUnique(hdrs, hdrs[k])

BuildDataFrame(rows, hdrs) ==
    [columns |-> hdrs,
     dtypes  |-> [k \in 1..Len(hdrs) |->
                     IF ConvertColumn(hdrs, k) THEN "numeric" ELSE "text"],
     data    |-> [r \in 1..Len(rows) |->
                     [k \in 1..Len(hdrs) |->
                         IF ConvertColumn(hdrs, k)
                         THEN ToNumeric(rows[r][k])
                         ELSE StrCell(rows[r][k])]]]

(***************************************************************************)
(* The files and column lists read_data_file is called with                *)
(***************************************************************************)

MaxGap  == 10   \* most blank lines between the Datum.Name and Datum.Unit lines
MaxLead == 1    \* most blank lines before the Datum.Name line
MaxRows == 2    \* most lines after the DataName line of a data-section file
MaxLineLen == 4 \* longest line _detect_delimiter is called with directly
ScanLen == 3    \* lines after the DataName line of a file about the scan

T(x) == <<x>>

RECURSIVE Join(_, _)
Join(fields, d) ==
    IF fields = <<>> THEN <<>>
    ELSE IF Len(fields) = 1 THEN fields[1]
    ELSE fields[1] \o <<d>> \o Join(Tail(fields), d)

Blanks(n) == [k \in 1..n |-> <<>>]

SeqsUpTo(S, n) == UNION {[1..m -> S] : m \in 0..n}

\* <<name fields, unit fields>> of the two declaration lines
DeclarationChoices ==
    { << <<T("A"), T("B"), T("C")>>, <<T("u"), T("v"), T("w")>> >>,
      << <<T("A"), <<>>, T("C")>>,   <<T("u"), T("v"), T("w")>> >>,
      << <<T("A"), T("B"), T("C")>>, <<T("u"), <<" ">>, T("w")>> >>,
      << <<T("B"), T("A")>>,         <<T("u"), T("v"), T("w")>> >>,
      << <<T("A"), T("D")>>,         <<T("u"), T("v")>> >>,
      << <<T("A"), T("B"), T("A")>>, <<T("u"), T("v"), T("w")>> >>,
      << <<>>,                       <<T("u"), T("v"), T("w")>> >>,
      << <<T("A"), T("B"), T("C")>>, <<>> >> }

DatumNameLine(fields, d) == Join(<<T("AnalysisSetup"), T("Datum.Name")>> \o fields, d)
DatumUnitLine(fields, d) == Join(<<T("AnalysisSetup"), T("Datum.Unit")>> \o fields, d)
DataNameLine(fields, d)  == Join(<<T("DataName")>> \o fields, d)
DataValueLine(fields, d) == Join(<<T("DataValue")>> \o fields, d)

\* Files about unit discovery: lead blank lines, the name line, gap blank lines,
\* the unit line (twice when again), then one DataName line and one data row.
UnitFile(lead, gap, again, decl, d) ==
    Blanks(lead) \o <<DatumNameLine(decl[1], d)>> \o Blanks(gap)
        \o <<DatumUnitLine(decl[2], d)>>
        \o (IF again THEN <<DatumUnitLine(<<T("w"), T("w"), T("w")>>, d)>> ELSE <<>>)
        \o <<DataNameLine(<<T("A"), T("B"), T("C")>>, ","),
             DataValueLine(<<T("1"), T("2"), T("1")>>, ",")>>

UnitFiles ==
    { UnitFile(lead, gap, again, decl, ",") :
        <<lead, gap, again>> \in (0..MaxLead) \X (0..MaxGap) \X BOOLEAN,
        decl \in DeclarationChoices }
    \cup { UnitFile(0, gap, FALSE, decl, ";") : gap \in {0, MaxGap}, decl \in DeclarationChoices }

DataNameLines ==
    { DataNameLine(<<T("A"), T("B")>>, ","),
      DataNameLine(<<T("A"), T("B"), T("C")>>, ","),
      DataNameLine(<<T("A"), T("A")>>, ","),
      DataNameLine(<<T("A"), <<>>, T("B")>>, ","),
      DataNameLine(<<>>, ","),
      DataNameLine(<<T("A"), T("B")>>, ";") }

RowLines ==
    { DataValueLine(<<T("1"), T("2")>>, ","),
      DataValueLine(<<T("1")>>, ","),
      DataValueLine(<<T("1"), T("2"), T("1"), T("2")>>, ","),
      DataValueLine(<<<<>>, <<>>>>, ","),
      DataValueLine(<<T("a"), <<"1", "E", " ", "2">>>>, ","),
      DataValueLine(<<<<>>, <<" ", "2", " ">>>>, ","),
      DataValueLine(<<T("1"), T("2")>>, ";"),
      DataValueLine(<<>>, ","),
      DataNameLine(<<T("B"), T("A")>>, ","),
      <<"#", ",", "1">>,
      <<" ">> }

DataFiles == { <<h>> \o rows : h \in DataNameLines, rows \in SeqsUpTo(RowLines, MaxRows) }

\* Files the column lists are tried on.
SelectionRowLines ==
    { DataValueLine(<<T("1"), T("2")>>, ","),
      DataValueLine(<<T("1")>>, ","),
      DataValueLine(<<T("1"), T("2"), T("1"), T("2")>>, ","),
      DataValueLine(<<<<>>, T("a")>>, ",") }

SelectionFiles ==
    { <<h>> \o rows : h \in DataNameLines, rows \in SeqsUpTo(SelectionRowLines, MaxRows) }

\* Files about the scan: data lines before the DataName line or none, and
\* ScanLen lines after it, rows and skipped lines in every order.
ScanRowLines ==
    { DataValueLine(<<T("1"), T("2")>>, ","),
      DataValueLine(<<T("2"), T("1")>>, ","),
      DataValueLine(<<<<>>, <<>>>>, ","),
      DataNameLine(<<T("B"), T("A")>>, ","),
      <<>> }

ScanFiles ==
    { pre \o <<DataNameLine(<<T("A"), T("B")>>, ",")>> \o post :
        pre \in SeqsUpTo({DataValueLine(<<T("1"), T("2")>>, ",")}, 1),
        post \in [1..ScanLen -> ScanRowLines] }

\* Files with no DataName line.
UndeclaredFiles ==
    SeqsUpTo({ DataValueLine(<<T("1"), T("2")>>, ","),
               DatumNameLine(<<T("A"), T("B")>>, ","),
               DatumUnitLine(<<T("u"), T("v")>>, ",") }, MaxRows)

NeedChoices ==
    { None, Some(<<>>), Some(<<T("A")>>), Some(<<T("B"), T("A")>>),
      Some(<<T("B"), T("D")>>), Some(<<T("a")>>), Some(<<T("C"), T("A"), T("B")>>) }

Inputs ==
    (UnitFiles \X {None}) \cup (DataFiles \X {None}) \cup (SelectionFiles \X NeedChoices)
        \cup (ScanFiles \X {None})
        \cup (UndeclaredFiles \X {None, Some(<<T("A")>>)})

\* Mutant: the delimiter of the Datum.Name line is still in use in phase 2.
DataDelimiterInherited(inherited, start, line) == inherited

\* delimiter after phase 2: whatever phase 1 left in it is overwritten with ','
\* and then with what is detected on the DataName line at index start, if any
DataDelimiter(inherited, start, line) ==
    IF start = -1 THEN "," ELSE _detect_delimiter(line)

\* Phases 1 to 4 on one input: every local they assign.
Declarations(file, need) ==
    LET found == UnitDiscovery(file)
        start == DataNameIndex(file)
        line == Strip(LineAt(file, start))
        delim == DataDelimiter(found.delimiter, start, line)
        hdrs == IF start = -1 THEN <<>> ELSE DataHeaders(line, delim)
        plan == SelectColumns(need, hdrs)
    IN  [lines |-> file, need_columns |-> need,
         name_line |-> found.name_line, unit_line |-> found.unit_line,
         datum_name_headers |-> found.datum_name_headers,
         unit_mapping |-> found.unit_mapping,
         data_start_line |-> start, delimiter |-> delim, data_headers |-> hdrs,
         column_units |-> ApplyUnits(hdrs, found.unit_mapping),
         headers |-> plan.headers, col_indices |-> plan.col_indices]

Calls == { Declarations(inp[1], inp[2]) : inp \in Inputs }

(***************************************************************************)
(* State                                                                   *)
(***************************************************************************)

VARIABLES
    pc,                          \* "idle", "scan" (the phase 5 loop), "done"
    column_units,                \* self.column_units
    column_order_from_dataname,  \* self.column_order_from_dataname
    lines, need_columns,         \* the file's lines, the argument
    name_line, unit_line,        \* phase 1: i and j where the loops break, or -1
    datum_name_headers, unit_mapping,
    data_start_line, data_headers, delimiter,
    headers, col_indices,
    i, data_rows, skipped_rows, cleaned_values, verdict,
    result,                      \* the returned (df, headers, success)
    outcome,                     \* which return statement was taken
    last_unit_mapping,           \* unit_mapping of the latest call that read its file
    remembered,                  \* None, or <<what one earlier call was given and returned>>
    detect_line, detected        \* a direct call of _detect_delimiter: argument, result

instance == <<column_units, column_order_from_dataname>>
phase1 == <<name_line, unit_line, datum_name_headers, unit_mapping>>
phase24 == <<data_start_line, data_headers, delimiter, headers, col_indices>>
phase5 == <<i, data_rows, skipped_rows, cleaned_values, verdict>>
detect == <<detect_line, detected>>
vars == <<pc, instance, lines, need_columns, phase1, phase24, phase5, result, outcome,
          last_unit_mapping, remembered, detect>>

Failure == [df |-> None, headers |-> None, success |-> FALSE]

\* __init__, and the locals of a call not yet made
Constructed ==
    /\ pc = "idle"
    /\ column_units = EmptyMapping
    /\ column_order_from_dataname = <<>>
    /\ lines = <<>> /\ need_columns = None
    /\ name_line = -1 /\ unit_line = -1
    /\ datum_name_headers = <<>> /\ unit_mapping = EmptyMapping
    /\ data_start_line = -1 /\ data_headers = <<>> /\ delimiter = ","
    /\ headers = <<>> /\ col_indices = <<>>
    /\ i = 0 /\ data_rows = <<>> /\ skipped_rows = 0
    /\ cleaned_values = <<>> /\ verdict = "none"
    /\ result = Failure /\ outcome = "none"
    /\ last_unit_mapping = EmptyMapping
    /\ remembered = None

Init == Constructed /\ detect_line = <<>> /\ detected = "none"

(***************************************************************************)
(* read_data_file                                                          *)
(***************************************************************************)

\* Mutant: the unit entries of the call before are not removed.
ClearedUnitsKept(units) == units

\* self.column_units.clear()
ClearedUnits(units) == EmptyMapping

\* self.column_units[col] = unit_mapping[col], for every entry of added
WithUnits(units, added) ==
    [c \in DOMAIN units \cup DOMAIN added |->
        IF c \in DOMAIN added THEN added[c] ELSE units[c]]

\* open() or readlines() raises: return before anything is cleared
FileUnreadable ==
    /\ pc = "idle"
    /\ pc' = "done"
    /\ result' = Failure
    /\ outcome' = "FileUnreadable"
    /\ UNCHANGED <<instance, lines, need_columns, phase1, phase24, phase5,
                   last_unit_mapping, remembered, detect>>

\* phases 1 and 2 of a file with no DataName line, the call one of calls
MissingColumnDeclarationOf(calls) ==
    /\ pc = "idle"
    /\ \E call \in calls :
          /\ call.data_start_line = -1
          /\ lines' = call.lines
          /\ need_columns' = call.need_columns
          /\ name_line' = call.name_line
          /\ unit_line' = call.unit_line
          /\ datum_name_headers' = call.datum_name_headers
          /\ unit_mapping' = call.unit_mapping
          /\ last_unit_mapping' = call.unit_mapping
    /\ column_units' = ClearedUnits(column_units)
    /\ column_order_from_dataname' = <<>>
    /\ pc' = "done"
    /\ result' = Failure
    /\ outcome' = "MissingColumnDeclaration"
    /\ UNCHANGED <<phase24, phase5, detect>>

MissingColumnDeclaration == MissingColumnDeclarationOf(Calls) /\ UNCHANGED remembered

\* phases 1 to 4 of a file with a DataName line, the call one of calls
ParseDeclarationsOf(calls) ==
    /\ pc = "idle"
    /\ \E call \in calls :
          /\ call.data_start_line # -1
          /\ lines' = call.lines
          /\ need_columns' = call.need_columns
          /\ name_line' = call.name_line
          /\ unit_line' = call.unit_line
          /\ datum_name_headers' = call.datum_name_headers
          /\ unit_mapping' = call.unit_mapping
          /\ last_unit_mapping' = call.unit_mapping
          /\ data_start_line' = call.data_start_line
          /\ delimiter' = call.delimiter
          /\ data_headers' = call.data_headers
          /\ column_order_from_dataname' = call.data_headers
          /\ column_units' = WithUnits(ClearedUnits(column_units), call.column_units)
          /\ headers' = call.headers
          /\ col_indices' = call.col_indices
          /\ i' = call.data_start_line + 1
    /\ data_rows' = <<>>
    /\ skipped_rows' = 0
    /\ pc' = "scan"
    /\ UNCHANGED <<cleaned_values, verdict, result, outcome, detect>>

ParseDeclarations == ParseDeclarationsOf(Calls) /\ UNCHANGED remembered

\* one iteration of the phase 5 loop
\* Mutant: a DataValue line with no data is dropped without being counted.
SkippedAfterUncounted(skipped, v) ==
    IF v \in {"row", "no_data"} THEN skipped ELSE skipped + 1

\* skipped_rows += 1 on every exit of the loop body but the append
SkippedAfter(skipped, v) == IF v = "row" THEN skipped ELSE skipped + 1

\* one pass of the loop over the lines after the DataName line
ScanLine ==
    /\ pc = "scan"
    /\ i < Len(lines)
    /\ LET v == ScanVerdict(LineAt(lines, i), delimiter, data_headers, col_indices)
           cleaned == CleanedValues(Split(Strip(LineAt(lines, i)), delimiter),
                                    Len(data_headers))
       IN  /\ verdict' = v
           /\ cleaned_values' = IF v \in {"row", "no_data"} THEN cleaned ELSE cleaned_values
           /\ data_rows' = IF v = "row"
                           THEN Append(data_rows, SelectedValues(cleaned, col_indices))
                           ELSE data_rows
           /\ skipped_rows' = SkippedAfter(skipped_rows, v)
    /\ i' = i + 1
    /\ UNCHANGED <<pc, instance, lines, need_columns, phase1, phase24, result, outcome,
                   last_unit_mapping, remembered, detect>>

\* Mutant: the check for an empty collection is gone.
NoRowsNeverEmpty(rows) == FALSE

\* not data_rows
NoRows(rows) == rows = <<>>

\* the loop is over and collected nothing
EmptyResult ==
    /\ pc = "scan"
    /\ i = Len(lines)
    /\ NoRows(data_rows)
    /\ pc' = "done"
    /\ result' = Failure
    /\ outcome' = "EmptyResult"
    /\ UNCHANGED <<instance, lines, need_columns, phase1, phase24, phase5,
                   last_unit_mapping, remembered, detect>>

\* phase 6
ReturnTable ==
    /\ pc = "scan"
    /\ i = Len(lines)
    /\ ~NoRows(data_rows)
    /\ pc' = "done"
    /\ result' = [df |-> Some(BuildDataFrame(data_rows, headers)),
                  headers |-> Some(headers), success |-> TRUE]
    /\ outcome' = "Success"
    /\ UNCHANGED <<instance, lines, need_columns, phase1, phase24, phase5,
                   last_unit_mapping, remembered, detect>>

\* the call is over: its locals and its result are gone, the instance stays
ReturnToCaller ==
    /\ pc = "done"
    /\ pc' = "idle"
    /\ lines' = <<>> /\ need_columns' = None
    /\ name_line' = -1 /\ unit_line' = -1
    /\ datum_name_headers' = <<>> /\ unit_mapping' = EmptyMapping
    /\ data_start_line' = -1 /\ data_headers' = <<>> /\ delimiter' = ","
    /\ headers' = <<>> /\ col_indices' = <<>>
    /\ i' = 0 /\ data_rows' = <<>> /\ skipped_rows' = 0
    /\ cleaned_values' = <<>> /\ verdict' = "none"
    /\ result' = Failure /\ outcome' = "none"
    /\ UNCHANGED <<instance, last_unit_mapping, detect>>

Return == ReturnToCaller /\ UNCHANGED remembered

Next ==
    \/ FileUnreadable
    \/ MissingColumnDeclaration
    \/ ParseDeclarations
    \/ ScanLine
    \/ EmptyResult
    \/ ReturnTable
    \/ Return

Spec == Init /\ [][Next]_vars

(***************************************************************************)
(* Calls repeated on one instance: one call that read its file is          *)
(* remembered, with what it returned and left in the instance, and whether *)
(* a call on another file was made since.                                  *)
(***************************************************************************)

RerunFiles ==
    { UnitFile(0, 0, FALSE, decl, ",") : decl \in DeclarationChoices }
    \cup { <<h>> \o rows : h \in DataNameLines, rows \in SeqsUpTo(SelectionRowLines, 1) }
    \cup { <<>>, <<DataValueLine(<<T("1"), T("2")>>, ",")>>,
           <<DatumNameLine(<<T("A"), T("B")>>, ","), DatumUnitLine(<<T("u"), T("v")>>, ",")>> }

RerunInputs == RerunFiles \X {None, Some(<<T("B"), T("A")>>)}

RerunCalls == { Declarations(inp[1], inp[2]) : inp \in RerunInputs }

\* a call on a file other than the remembered one is noted
NoteOtherFile ==
    remembered' =
        IF remembered # None /\ lines' # remembered[1].lines
        THEN Some([remembered[1] EXCEPT !.other_since = TRUE])
        ELSE remembered

RerunMissingColumnDeclaration == MissingColumnDeclarationOf(RerunCalls) /\ NoteOtherFile

RerunParseDeclarations == ParseDeclarationsOf(RerunCalls) /\ NoteOtherFile

Remember ==
    /\ remembered = None
    /\ outcome # "FileUnreadable"
    /\ ReturnToCaller
    /\ remembered' = Some([lines |-> lines, need_columns |-> need_columns,
                           result |-> result, outcome |-> outcome,
                           column_units |-> column_units,
                           column_order_from_dataname |-> column_order_from_dataname,
                           other_since |-> FALSE])

RerunNext ==
    \/ FileUnreadable
    \/ RerunMissingColumnDeclaration
    \/ RerunParseDeclarations
    \/ ScanLine
    \/ EmptyResult
    \/ ReturnTable
    \/ Return
    \/ Remember

RerunSpec == Init /\ [][RerunNext]_vars

(***************************************************************************)
(* _detect_delimiter called on its own, on any short line                  *)
(***************************************************************************)

DetectAlphabet == {",", "\t", ";", "|", " ", "a"}

DetectLines == SeqsUpTo(DetectAlphabet, MaxLineLen)

DetectInit == Constructed /\ detect_line \in DetectLines /\ detected = "none"

Detect ==
    /\ detected = "none"
    /\ detected' = _detect_delimiter(detect_line)
    /\ UNCHANGED <<pc, instance, lines, need_columns, phase1, phase24, phase5, result,
                   outcome, last_unit_mapping, remembered, detect_line>>

DetectNext == Detect

DetectSpec == DetectInit /\ [][DetectNext]_vars


(***************************************************************************)
(* Properties                                                              *)
(***************************************************************************)

Range(s) == {s[k] : k \in 1..Len(s)}

Max(a, b) == IF a > b THEN a ELSE b

Requested == IF need_columns = None THEN <<>> ELSE need_columns[1]

Matched == {c \in Range(Requested) : c \in Range(data_headers)}

\* the call read its file and is past phase 4, or has returned
Parsed == pc \in {"scan", "done"} /\ outcome # "FileUnreadable"

HasDataNameLine == \E k \in 1..Len(lines) : StartsWith(Strip(lines[k]), "DataName")

NoRepeats(s) == \A j, k \in 1..Len(s) : j # k => s[j] # s[k]

\* C1: when at least one requested name matches a DataName column (no name
\* repeated in either list), the returned headers and the table's columns are the
\* matched names in the DataName line's order, not in the caller's.
C1_SelectionInDataNameOrder ==
    (/\ pc = "done" /\ outcome = "Success" /\ Matched # {}
     /\ NoRepeats(data_headers) /\ NoRepeats(Requested)) =>
        LET inOrder == SelectSeq(data_headers, LAMBDA c : c \in Matched)
        IN  /\ result.headers = Some(inOrder)
            /\ result.df[1].columns = inOrder

\* C2: with no column list, an empty one, or one of which no name equals a
\* DataName column, the selection is every DataName column with source indices
\* 0..n-1; with at least one match the selection is the matched names only, each
\* with the index of its DataName column, and the call goes on.
C2_SelectionFallback ==
    (Parsed /\ data_start_line # -1) =>
        IF Matched = {}
        THEN /\ headers = data_headers
             /\ col_indices = [k \in 1..Len(data_headers) |-> k - 1]
        ELSE /\ Range(headers) = Matched
             /\ Len(col_indices) = Len(headers)
             /\ \A k \in 1..Len(headers) :
                   /\ col_indices[k] \in 0..(Len(data_headers) - 1)
                   /\ data_headers[col_indices[k] + 1] = headers[k]
             /\ pc = "done" => outcome \in {"Success", "EmptyResult"}

C2_PartialMatch ==
    /\ pc = "done" /\ outcome = "Success"
    /\ need_columns = Some(<<T("B"), T("D")>>)
    /\ data_headers = <<T("A"), T("B")>>
    /\ result.headers = Some(<<T("B")>>)

\* C3: a column (of a unique label) is numeric, its empty strings NaN, exactly
\* when every non-empty value of it parses as a number; otherwise it is text and
\* keeps every original string.
C3_TypeInference ==
    (pc = "done" /\ outcome = "Success") =>
        LET df == result.df[1]
        IN  \A k \in 1..Len(headers) :
              LabelIsUnique(headers, headers[k]) =>
                LET parses == \A r \in 1..Len(data_rows) :
                                  data_rows[r][k] = <<>> \/ ParsesAsNumber(data_rows[r][k])
                IN  /\ df.dtypes[k] = "numeric" <=> parses
                    /\ parses => \A r \in 1..Len(data_rows) :
                                    data_rows[r][k] = <<>> => df.data[r][k] = NaNCell
                    /\ ~parses => \A r \in 1..Len(data_rows) :
                                    df.data[r][k] = StrCell(data_rows[r][k])

\* C4: a file that was read and has no line beginning, once trimmed, with
\* DataName never reaches the data scan and returns (None, None, False) through
\* the missing-declaration exit, whatever DataValue or unit lines it holds.
C4_MissingDeclaration ==
    /\ pc = "scan" => HasDataNameLine
    /\ (pc = "done" /\ outcome # "FileUnreadable" /\ ~HasDataNameLine) =>
          /\ outcome = "MissingColumnDeclaration"
          /\ result = Failure

C4_MissingWithDataAndUnits ==
    /\ pc = "done" /\ outcome = "MissingColumnDeclaration"
    /\ \E k \in 1..Len(lines) : StartsWith(lines[k], "DataValue")
    /\ \E k \in 1..Len(lines) : IsDatumUnitLine(lines[k])

\* C5: a call that read its file returns through the empty-result exit exactly
\* when a DataName line was found and no data row was collected, and a
\* successful call returns a table of at least one row.
C5_EmptyResult ==
    (pc = "done" /\ outcome # "FileUnreadable") =>
        /\ outcome = "EmptyResult" <=> (data_start_line # -1 /\ data_rows = <<>>)
        /\ outcome = "EmptyResult" => result = Failure
        /\ result.success =>
              /\ outcome = "Success"
              /\ Len(result.df[1].data) >= 1
              /\ Len(result.df[1].data) = Len(data_rows)

C5_EmptyAfterDataValueLines ==
    /\ pc = "done" /\ outcome = "EmptyResult"
    /\ \E k \in (data_start_line + 2)..Len(lines) : StartsWith(lines[k], "DataValue")

\* d is the candidate of the highest count in line, the first such in the
\* priority order comma, tab, semicolon, pipe (comma when every count is 0).
IsFirstMaximal(line, d) ==
    \E k \in 1..Len(possible_delimiters) :
        /\ d = possible_delimiters[k]
        /\ \A m \in 1..Len(possible_delimiters) :
              Count(line, possible_delimiters[m]) <= Count(line, d)
        /\ \A m \in 1..(k - 1) : Count(line, possible_delimiters[m]) < Count(line, d)

\* C6 as claimed: for every line _detect_delimiter returns the first maximal
\* candidate.
C6_FirstMaximalEveryLine ==
    detected # "none" => IsFirstMaximal(detect_line, detected)

\* C6: _detect_delimiter returns comma for an empty or whitespace-only line
\* (tabs are whitespace), and for every other line the candidate of the highest
\* count, ties going to the first of comma, tab, semicolon, pipe.
C6_FirstMaximalUnlessBlank ==
    detected # "none" =>
        IF Strip(detect_line) = <<>>
        THEN detected = ","
        ELSE IsFirstMaximal(detect_line, detected)

C6_TieGoesToComma ==
    /\ detected = ","
    /\ Strip(detect_line) # <<>>
    /\ Count(detect_line, ",") = 1
    /\ Count(detect_line, ";") = 1
    /\ Count(detect_line, "|") = 1

NameLineParts ==
    LET line == Strip(LineAt(lines, name_line))
    IN  Split(line, _detect_delimiter(line))

UnitLineParts ==
    Split(Strip(LineAt(lines, unit_line)),
          _detect_delimiter(Strip(LineAt(lines, name_line))))

\* The unit line is the first Datum.Unit line among the window lines after the
\* name line, when that line has more than two fields; with none there, no unit
\* line is used, the mappings are empty and the call still succeeds on its rows.
UnitLookahead(window) ==
    (Parsed /\ name_line # -1 /\ Len(NameLineParts) > 2) =>
        LET found == {k \in (name_line + 1)..Min(name_line + window, Len(lines) - 1) :
                          IsDatumUnitLine(Strip(LineAt(lines, k)))}
        IN  IF found = {}
            THEN /\ unit_line = -1
                 /\ unit_mapping = EmptyMapping
                 /\ column_units = EmptyMapping
                 /\ (pc = "done" /\ data_start_line # -1 /\ data_rows # <<>>) =>
                        outcome = "Success"
            ELSE /\ unit_line \in found
                 /\ \A k \in found : unit_line <= k

\* C7 as claimed: the window is the 10 lines after the name line, i+1..i+10.
C7_LookaheadTenLines == UnitLookahead(10)

\* C7: the window is the 9 lines after the name line, i+1..i+9: the first
\* Datum.Unit line there is the unit line, one further away is not used, and the
\* unit mapping is then empty without the parse failing.
C7_LookaheadNineLines == UnitLookahead(9)

C7_UnitLineAtWindowEdge ==
    /\ pc = "done" /\ outcome = "Success"
    /\ name_line # -1
    /\ unit_line = name_line + 9
    /\ column_units # EmptyMapping

\* C8: the name in field k >= 3 of the Datum.Name line (names distinct) is mapped
\* to the unit in field k of the Datum.Unit line, for every k up to the shorter
\* line, empty fields in between included.
C8_PositionalPairing ==
    (Parsed /\ name_line # -1 /\ unit_line # -1) =>
        LET names == NameLineParts
            units == UnitLineParts
            distinct == \A j, k \in 3..Len(names) :
                            j # k => Strip(names[j]) # Strip(names[k])
        IN  distinct =>
              \A k \in 3..Min(Len(names), Len(units)) :
                  Strip(names[k]) # <<>> =>
                      /\ Strip(names[k]) \in DOMAIN unit_mapping
                      /\ unit_mapping[Strip(names[k])] = Strip(units[k])

\* C9: in every state of every sequence of calls, each key of column_units is a
\* name of column_order_from_dataname and its value is the unit the unit
\* declaration of the same file pairs with it.
C9_UnitsWithinColumnOrder ==
    \A c \in DOMAIN column_units :
        /\ InList(column_order_from_dataname, c)
        /\ c \in DOMAIN last_unit_mapping
        /\ column_units[c] = last_unit_mapping[c]

C9_RetainedAfterFailedRead ==
    /\ pc = "done" /\ outcome = "FileUnreadable"
    /\ column_units # EmptyMapping
    /\ \E c \in DOMAIN last_unit_mapping : c \notin DOMAIN column_units

\* the number of values on the line the loop has just processed
ValuesOnLine == Len(Split(Strip(LineAt(lines, i - 1)), delimiter)) - 1

PastPadding == pc \in {"scan", "done"} /\ verdict \in {"row", "no_data"}

\* C10 as claimed: after padding, the cleaned values of a DataValue line are
\* exactly as many as the DataName columns (of which there is at least one).
C10_PaddedToColumnCount ==
    (PastPadding /\ data_headers # <<>>) => Len(cleaned_values) = Len(data_headers)

\* C10: after padding, the cleaned values of a DataValue line are as many as
\* the larger of the line's value count and the DataName column count: exactly
\* the column count for a row not longer than it, the row's own length for a
\* longer row, which is not truncated.
C10_PaddedNotTruncated ==
    PastPadding => Len(cleaned_values) = Max(ValuesOnLine, Len(data_headers))

C10_LongRowKept ==
    /\ pc = "scan" /\ verdict = "row"
    /\ Len(cleaned_values) > Len(data_headers)
    /\ Len(data_headers) > 0

\* the call under way read the file, with the column list, of the remembered call
SameCallAgain ==
    /\ pc = "done" /\ outcome # "FileUnreadable"
    /\ remembered # None
    /\ remembered[1].lines = lines
    /\ remembered[1].need_columns = need_columns

\* C11: a call on the same lines with the same column list as an earlier call
\* returns the same (table, headers, success) through the same exit and leaves
\* the same column_units and column order, whatever calls were made in between.
C11_RerunIdentical ==
    SameCallAgain =>
        /\ result = remembered[1].result
        /\ outcome = remembered[1].outcome
        /\ column_units = remembered[1].column_units
        /\ column_order_from_dataname = remembered[1].column_order_from_dataname

C11_RerunAfterOtherFile ==
    /\ SameCallAgain
    /\ remembered[1].other_since
    /\ outcome = "Success"
    /\ DOMAIN column_units = {T("A")}

\* the value of lines[k] in DataName position p (from 0), trimmed
ValueAt(k, p) ==
    LET parts == Split(Strip(lines[k]), delimiter)
    IN  IF p + 2 <= Len(parts) THEN Strip(parts[p + 2]) ELSE <<>>

\* lines[k] meets the four conditions of a data row
Contributes(k) ==
    /\ k - 1 > data_start_line
    /\ StartsWith(Strip(lines[k]), "DataValue")
    /\ Len(Split(Strip(lines[k]), delimiter)) >= 2
    /\ \E c \in 1..Len(col_indices) : ValueAt(k, col_indices[c]) # <<>>

Scanning == pc \in {"scan", "done"} /\ outcome \in {"none", "EmptyResult", "Success"}

\* C12: a line gives a row exactly when it is after the first DataName line,
\* starts with DataValue once trimmed, splits into two fields or more on the
\* data delimiter and has a selected value that is not empty once trimmed; every
\* other line is passed over, and the call fails only when no line gives a row.
C12_RowInclusion ==
    Scanning =>
        /\ verdict # "none" => (verdict = "row" <=> Contributes(i))
        /\ Len(data_rows) = Cardinality({k \in 1..i : Contributes(k)})
        /\ pc = "done" =>
              /\ result.success <=> \E k \in 1..Len(lines) : Contributes(k)
              /\ result.success =>
                    Len(result.df[1].data)
                        = Cardinality({k \in 1..Len(lines) : Contributes(k)})

C12_OnlyQualifyingLines ==
    /\ pc = "done" /\ outcome = "Success"
    /\ data_start_line = 1
    /\ StartsWith(lines[1], "DataValue")
    /\ \E k \in 3..Len(lines) : StartsWith(lines[k], "DataName")
    /\ \E k \in 3..Len(lines) : lines[k] = DataValueLine(<<<<>>, <<>>>>, ",")
    /\ Len(result.df[1].data) = 1

\* the line examined last gave the row appended last
RowAppended == Scanning /\ verdict = "row"

\* C13: an appended row has one value for each selected column; the value of the
\* column at DataName position p is the cleaned value p of the line, the field
\* after the marker being value 0, or empty when the line has no value p; p is
\* always a declared position, so a value past the declared columns is never
\* taken, and a short line is kept with empty values for what it lacks.
C13_RowProjection ==
    RowAppended =>
        LET row == data_rows[Len(data_rows)]
            parts == Split(Strip(lines[i]), delimiter)
        IN  /\ Len(row) = Len(headers)
            /\ Len(col_indices) = Len(headers)
            /\ \A c \in 1..Len(headers) :
                  LET p == col_indices[c]
                  IN  /\ p >= 0 /\ p < Len(data_headers)
                      /\ data_headers[p + 1] = headers[c]
                      /\ row[c] = IF p + 2 <= Len(parts)
                                  THEN CleanValue(parts[p + 2]) ELSE <<>>

C13_ShortRowKeptReordered ==
    /\ RowAppended
    /\ need_columns = Some(<<T("B"), T("A")>>)
    /\ data_headers = <<T("A"), T("B")>>
    /\ lines[i] = DataValueLine(<<T("1")>>, ",")
    /\ data_rows[Len(data_rows)] = <<<<>>, T("1")>>

\* what _detect_delimiter gives on the DataName line of the file being scanned
DataNameDelimiter == _detect_delimiter(Strip(lines[data_start_line + 1]))

\* what it gives on the Datum.Name line, "none" without such a line
DatumNameDelimiter ==
    IF name_line = -1 THEN "none" ELSE _detect_delimiter(Strip(lines[name_line + 1]))

\* C14: during the scan the delimiter is the one detected on the DataName line,
\* whatever was detected on the Datum.Name line; a DataValue line is split on it
\* and on nothing else: it is malformed exactly when that split gives one field,
\* and otherwise its values are the cleaned fields of that split.
C14_DataNameDelimiterOnly ==
    Scanning =>
        /\ delimiter = DataNameDelimiter
        /\ verdict \in {"malformed", "no_data", "row"} =>
              LET parts == Split(Strip(lines[i]), DataNameDelimiter)
              IN  /\ verdict = "malformed" <=> Len(parts) < 2
                  /\ verdict # "malformed" =>
                        /\ Len(cleaned_values) >= Len(parts) - 1
                        /\ \A k \in 1..(Len(parts) - 1) :
                              cleaned_values[k] = CleanValue(parts[k + 1])

C14_DelimitersDiffer ==
    /\ RowAppended
    /\ DatumNameDelimiter = ";"
    /\ delimiter = ","
    /\ unit_mapping # EmptyMapping

\* the cleaned value of lines[k] in DataName position p (from 0)
CleanedAt(k, p) ==
    LET parts == Split(Strip(lines[k]), delimiter)
    IN  IF p + 2 <= Len(parts) THEN CleanValue(parts[p + 2]) ELSE <<>>

\* the rows of the contributing lines among lines[1..k], in file order
RECURSIVE RowsUpTo(_)
RowsUpTo(k) ==
    IF k = 0 THEN <<>>
    ELSE IF Contributes(k)
         THEN Append(RowsUpTo(k - 1),
                     [c \in 1..Len(col_indices) |-> CleanedAt(k, col_indices[c])])
         ELSE RowsUpTo(k - 1)

\* C15: at every step of the scan and at its end, the rows collected and the
\* lines counted as skipped add up to the lines examined after the DataName
\* line, and the rows are those of the contributing lines in file order, in the
\* collection and in the returned table.
C15_ScanAccounting ==
    Scanning =>
        /\ Len(data_rows) + skipped_rows = i - (data_start_line + 1)
        /\ data_rows = RowsUpTo(i)
        /\ (pc = "done" /\ result.success) =>
              result.df[1] = BuildDataFrame(RowsUpTo(Len(lines)), headers)

C15_TwoRowsAroundSkippedLine ==
    /\ pc = "done" /\ outcome = "Success"
    /\ data_start_line = 0
    /\ data_rows = << <<T("2"), T("1")>>, <<T("1"), T("2")>> >>
    /\ skipped_rows = 1
    /\ lines[3] = <<>>

=============================================================================
